---- MODULE Spec2Model ----
(***************************************************************************)
(* Model of the app-list sagas of GeneratorDataSources.tsx:                *)
(*   fetchAppListsSaga                 the initial pass over the layouts   *)
(*   fetchSpecificAppListSaga          one fetch task per lookup key       *)
(*   checkIfAppListsShouldRefetchSaga  the reactor on a field update       *)
(* A field path is a sequence of tokens: names, row indices ("0", "1", ..) *)
(* and index indicators ("{0}", "{1}").  A mapping is a function from      *)
(* field paths (Object.keys(mapping)) to option keys.                      *)
(* Sagas run on one thread: fork and put do not block, so a saga runs      *)
(* until it ends or blocks in call(get, url); the call returns in a later  *)
(* turn, when no saga is running.                                          *)
(***************************************************************************)
EXTENDS Integers, Sequences, FiniteSets, TLC

\* ------------------------------------------------------------- bounds
MaxRows == 1
MaxElements == 2
MaxEvents == 2

\* ------------------------------------------------------------- tokens
IndexDigits == <<"0", "1", "2", "3">>

ToStr(i) == IndexDigits[i + 1]

ParseInt(tok) == CHOOSE i \in 0..(Len(IndexDigits) - 1) : IndexDigits[i + 1] = tok

IsIndex(tok) == \E i \in 1..Len(IndexDigits) : IndexDigits[i] = tok

IndexIndicators == <<"{0}", "{1}", "{2}", "{3}">>

IsIndexIndicator(tok) == \E i \in 1..Len(IndexIndicators) : IndexIndicators[i] = tok

MalformedPathError == <<"MalformedPathError">>

\* ------------------------------------------------------------- key codec
getKeyWithoutIndex(key) == SelectSeq(key, LAMBDA tok : ~IsIndex(tok))

getKeyWithoutIndexIndicators(key) == SelectSeq(key, LAMBDA tok : ~IsIndexIndicator(tok))

getKeyIndex(key) ==
  LET idx == SelectSeq(key, IsIndex)
  IN  [i \in 1..Len(idx) |-> ParseInt(idx[i])]

NumIndicators(key) == Cardinality({i \in 1..Len(key) : IsIndexIndicator(key[i])})

\* The indexes given to the indicators from the right.
replaceIndexIndicatorsFromRight(key, indexes) ==
  IF NumIndicators(key) # Len(indexes)
  THEN MalformedPathError
  ELSE [i \in 1..Len(key) |->
          IF IsIndexIndicator(key[i])
          THEN ToStr(indexes[Cardinality({j \in i..Len(key) : IsIndexIndicator(key[j])})])
          ELSE key[i]]

replaceIndexIndicatorsWithIndexes(key, indexes) ==
  IF NumIndicators(key) # Len(indexes)
  THEN MalformedPathError
  ELSE [i \in 1..Len(key) |->
          IF IsIndexIndicator(key[i])
          THEN ToStr(indexes[Cardinality({j \in 1..i : IsIndexIndicator(key[j])})])
          ELSE key[i]]

HasIndexIndicator(mapping) == \E p \in DOMAIN mapping : NumIndicators(p) > 0

\* ------------------------------------------------------------- lookup keys
NoId == ""

NoMapping == <<>>

getAppListLookupKey(id, mapping) == [id |-> id, mapping |-> mapping]

MaxDepth(mapping) ==
  IF \E p \in DOMAIN mapping : NumIndicators(p) = 2 THEN 2 ELSE 1

\* The index combinations of the rows that exist, outer group first.
IndexCombinations(depth, repeatingGroups) ==
  IF depth = 1
  THEN [n \in 1..repeatingGroups.persons |-> <<n - 1>>]
  ELSE [n \in 1..(repeatingGroups.persons * repeatingGroups.pets) |->
          <<(n - 1) \div repeatingGroups.pets, (n - 1) % repeatingGroups.pets>>]

ConcreteMapping(mapping, combination) ==
  LET conc(p) == replaceIndexIndicatorsWithIndexes(p, SubSeq(combination, 1, NumIndicators(p)))
  IN  [q \in {conc(p) : p \in DOMAIN mapping} |->
         mapping[CHOOSE p \in DOMAIN mapping : conc(p) = q]]

NoTemplate == [id |-> NoId, mapping |-> NoMapping, secure |-> FALSE]

getAppListLookupKeys(id, mapping, secure, repeatingGroups) ==
  IF ~HasIndexIndicator(mapping)
  THEN [keys |-> <<[id |-> id, mapping |-> mapping, secure |-> secure]>>,
        keyWithIndexIndicator |-> NoTemplate]
  ELSE LET combos == IndexCombinations(MaxDepth(mapping), repeatingGroups)
       IN  [keys |-> [n \in 1..Len(combos) |->
                        [id |-> id, mapping |-> ConcreteMapping(mapping, combos[n]),
                         secure |-> secure]],
            keyWithIndexIndicator |->
              [id |-> id, mapping |-> mapping, secure |-> secure]]

\* ------------------------------------------------------------- inputs
PName == <<"persons", "{0}", "name">>

PKind == <<"persons", "{0}", "pets", "{1}", "kind">>

PCountry == <<"country">>

MapOf(paths) == [p \in paths |-> p[Len(p)]]

Elements ==
  { [appListId |-> "list1", mapping |-> MapOf({PName}), secure |-> FALSE],
    [appListId |-> "list1", mapping |-> MapOf({PName}), secure |-> TRUE],
    [appListId |-> "list2", mapping |-> MapOf({PName, PKind}), secure |-> FALSE],
    [appListId |-> "list1", mapping |-> MapOf({PCountry}), secure |-> FALSE],
    [appListId |-> NoId, mapping |-> NoMapping, secure |-> FALSE] }

Layouts == [1..MaxElements -> Elements]

\* The rows that exist and the row added next.
RowTokens == {ToStr(i) : i \in 0..MaxRows}

Fields ==
  {PCountry}
    \cup {<<"persons", i, "name">> : i \in RowTokens}
    \cup {<<"persons", "1", "pets", "0", "kind">>}

ItemLists == {<<"a">>, <<"b">>}

Responses ==
  {[kind |-> "ok", listItems |-> items] : items \in ItemLists}
    \cup {[kind |-> "throw", listItems |-> <<>>], [kind |-> "null", listItems |-> <<>>]}

\* ------------------------------------------------------------- state
VARIABLES
  layout,                      \* state.formLayout.layouts, flattened
  repeatingGroups,             \* state.formLayout.uiConfig.repeatingGroups
  appLists,                    \* state.appListState.appLists, in insertion order
  appListsWithIndexIndicator,  \* state.appListState.appListsWithIndexIndicator
  tasks,                       \* the fetchSpecificAppListSaga tasks forked so far
  lastReturn,                  \* per entry of appLists, the call(get, url) that returned last
  pass,                        \* fetchAppListsSaga: position and locals
  reactor,                     \* checkIfAppListsShouldRefetchSaga: position and locals
  events,                      \* the field updates handled so far
  validations,                 \* ValidationState: task and dataModels
  selected,                    \* the validations selected last, and the NodeVisibility asked
  merges,                      \* the number of merges so far, and the last one
  codec,                       \* one use of the key codec: position and values
  queue                        \* the queue slice: its state, the handler that runs, its puts

appListVars ==
  <<layout, repeatingGroups, appLists, appListsWithIndexIndicator, tasks,
    lastReturn, pass, reactor, events>>

vars == <<appListVars, validations, selected, merges, codec, queue>>

\* Nothing validated, nothing selected, the codec not in use.
NoValidations ==
  [task |-> <<>>, dataModels |-> [d \in {"d1"} |-> [f \in {"f1"} |-> <<>>]]]

NoSelection == [nodeVisibility |-> "none", mask |-> 0, validations |-> <<>>]

NoMerge ==
  [count |-> 0, source |-> "", scope |-> [dataElementId |-> "", field |-> ""],
   payload |-> <<>>, replaced |-> 0]

NoCodec == [pc |-> "idle", key |-> <<>>, template |-> <<>>, indexes |-> <<>>, result |-> <<>>]

\* ------------------------------------------------------------- queue slice: initialState
QueueTasks == {"dataTask", "appTask", "userTask", "infoTask", "stateless"}

\* const commonState = { isDone: null, error: null }
commonState == [isDone |-> "null", error |-> "null"]

\* The objects of the state, by reference: 0 is commonState itself.
ObjectIds == 0..5

\* Every task given commonState itself, not a copy of it.
initialStateShared ==
  [refs |-> [task \in QueueTasks |-> 0],
   objects |-> [id \in ObjectIds |-> commonState]]

\* { ...commonState } five times: five new objects with the fields of commonState.
initialState ==
  [refs |-> [dataTask |-> 1, appTask |-> 2, userTask |-> 3, infoTask |-> 4, stateless |-> 5],
   objects |-> [id \in ObjectIds |-> commonState]]

NoHandler == [task |-> "none", i |-> 1]

NoAction == [type |-> "", error |-> "null"]

\* The slice before any action: no handler runs, nothing was put.
NoQueue ==
  [state |-> initialState, handler |-> NoHandler, last |-> NoAction,
   puts |-> [task \in QueueTasks |-> <<>>], dispatches |-> 0]

Init ==
  /\ layout \in Layouts
  /\ repeatingGroups \in [persons : 0..MaxRows, pets : {1}]
  /\ appLists = <<>>
  /\ appListsWithIndexIndicator = <<>>
  /\ tasks = <<>>
  /\ lastReturn = <<>>
  /\ pass = [pc |-> "idle", el |-> 1, ki |-> 1, fetchedAppLists |-> <<>>,
             appListsWithIndexIndicators |-> <<>>, effects |-> <<>>]
  /\ reactor = [pc |-> "idle", i |-> 1, foundInExistingAppLists |-> FALSE]
  /\ events = <<>>
  /\ validations = NoValidations
  /\ selected = NoSelection
  /\ merges = NoMerge
  /\ codec = NoCodec
  /\ queue = NoQueue

\* ------------------------------------------------------------- store reducers
NoKey == getAppListLookupKey(NoId, NoMapping)

IndexOfKey(state, key) ==
  IF \E i \in 1..Len(state) : state[i].key = key
  THEN CHOOSE i \in 1..Len(state) : state[i].key = key
  ELSE 0

SetEntry(state, entry) ==
  IF IndexOfKey(state, entry.key) = 0
  THEN Append(state, entry)
  ELSE [state EXCEPT ![IndexOfKey(state, entry.key)] = entry]

fetching(state, key, metaData) ==
  SetEntry(state, [key |-> key, id |-> metaData.id, mapping |-> metaData.mapping,
                   secure |-> metaData.secure, fetchStatus |-> "loading", items |-> <<>>])

fetchFulfilled(state, key, items) ==
  LET old == state[IndexOfKey(state, key)]
  IN  SetEntry(state, [key |-> key, id |-> old.id, mapping |-> old.mapping,
                       secure |-> old.secure, fetchStatus |-> "done", items |-> items])

fetchRejected(state, key) ==
  LET old == state[IndexOfKey(state, key)]
  IN  SetEntry(state, [key |-> key, id |-> old.id, mapping |-> old.mapping,
                       secure |-> old.secure, fetchStatus |-> "error", items |-> <<>>])

Action(type, key, task, items) ==
  [type |-> type, key |-> key, task |-> task, items |-> items]

NoReturn == [task |-> 0, ok |-> FALSE, listItems |-> <<>>]

\* ------------------------------------------------------------- scheduling
Terminal(task) == task.pc \in {"done", "cancelled", "crashed"}

TaskIds == 1..Len(tasks)

\* yield call(...) in place of the fork: the saga waits for the task to end.
PassCallBlocks == TRUE

\* yield fork(...) of fetchAppListsSaga does not wait for the forked task.
PassForkBlocks == FALSE

\* yield call(...) in place of the fork: the handler waits for the task to end.
ReactorCallBlocks == TRUE

\* yield fork(...) of checkIfAppListsShouldRefetchSaga does not wait either.
ReactorForkBlocks == FALSE

PassRunning == pass.pc \in {"element", "keys", "put"}

ReactorRunning == reactor.pc \in {"concrete", "template"}

PassMayRun ==
  PassForkBlocks => \A t \in TaskIds : tasks[t].by = 0 => Terminal(tasks[t])

ReactorMayRun ==
  ReactorForkBlocks => \A t \in TaskIds : tasks[t].by = Len(events) => Terminal(tasks[t])

\* No saga holds the thread: the pending call(get, url) of a task may return
\* and a new action may be dispatched from outside.
TurnFree ==
  /\ ~(PassRunning /\ PassMayRun)
  /\ ~(ReactorRunning /\ ReactorMayRun)
  /\ \A t \in TaskIds : tasks[t].pc # "start"

NewTask(appListId, dataMapping, secure, by, via) ==
  [appListId |-> appListId, dataMapping |-> dataMapping, secure |-> secure,
   key |-> getAppListLookupKey(appListId, dataMapping),
   by |-> by, via |-> via, pc |-> "start", puts |-> <<>>]

\* ------------------------------------------------------------- fetchAppListsSaga
Resolve(element) ==
  getAppListLookupKeys(element.appListId, element.mapping, element.secure, repeatingGroups)

\* The membership test on fetchedAppLists left out.
ShouldFetchWithoutDedup(appListId, lookupKey, fetchedAppLists) == appListId # NoId

\* The test of appListId left out.
ShouldFetchWithoutId(appListId, lookupKey, fetchedAppLists) ==
  \A i \in 1..Len(fetchedAppLists) : fetchedAppLists[i] # lookupKey

ShouldFetch(appListId, lookupKey, fetchedAppLists) ==
  /\ appListId # NoId
  /\ \A i \in 1..Len(fetchedAppLists) : fetchedAppLists[i] # lookupKey

StartPass ==
  /\ pass.pc = "idle"
  /\ TurnFree
  /\ pass' = [pass EXCEPT !.pc = "element"]
  /\ UNCHANGED <<layout, repeatingGroups, appLists, appListsWithIndexIndicator,
                 tasks, lastReturn, reactor, events>>
  /\ UNCHANGED <<validations, selected, merges, codec, queue>>

PassElement ==
  /\ pass.pc = "element"
  /\ PassMayRun
  /\ IF pass.el > Len(layout)
     THEN pass' = [pass EXCEPT !.pc = "put"]
     ELSE LET r == Resolve(layout[pass.el])
              seen == IF r.keyWithIndexIndicator # NoTemplate
                      THEN Append(pass.appListsWithIndexIndicators, r.keyWithIndexIndicator)
                      ELSE pass.appListsWithIndexIndicators
          IN  IF Len(r.keys) = 0
              THEN pass' = [pass EXCEPT !.appListsWithIndexIndicators = seen,
                                        !.el = @ + 1]
              ELSE pass' = [pass EXCEPT !.appListsWithIndexIndicators = seen,
                                        !.pc = "keys", !.ki = 1]
  /\ UNCHANGED <<layout, repeatingGroups, appLists, appListsWithIndexIndicator,
                 tasks, lastReturn, reactor, events>>
  /\ UNCHANGED <<validations, selected, merges, codec, queue>>

PassKey ==
  /\ pass.pc = "keys"
  /\ PassMayRun
  /\ LET element == layout[pass.el]
         keys == Resolve(element).keys
     IN  IF pass.ki > Len(keys)
         THEN /\ pass' = [pass EXCEPT !.pc = "element", !.el = @ + 1]
              /\ UNCHANGED tasks
         ELSE LET appListsObject == keys[pass.ki]
                  lookupKey == getAppListLookupKey(appListsObject.id, appListsObject.mapping)
              IN  IF ShouldFetch(element.appListId, lookupKey, pass.fetchedAppLists)
                  THEN /\ tasks' = Append(tasks,
                                     NewTask(element.appListId, appListsObject.mapping,
                                             appListsObject.secure, 0, "pass"))
                       /\ pass' = [pass EXCEPT !.fetchedAppLists = Append(@, lookupKey),
                                               !.effects = Append(@, "fork"),
                                               !.ki = @ + 1]
                  ELSE /\ pass' = [pass EXCEPT !.ki = @ + 1]
                       /\ UNCHANGED tasks
  /\ UNCHANGED <<layout, repeatingGroups, appLists, appListsWithIndexIndicator,
                 lastReturn, reactor, events>>
  /\ UNCHANGED <<validations, selected, merges, codec, queue>>

\* The put made only when the pass has forked a fetch.
PassPutOnlyAfterFork ==
  /\ pass.pc = "put"
  /\ PassMayRun
  /\ \A t \in TaskIds : tasks[t].pc # "start"
  /\ IF Len(pass.fetchedAppLists) > 0
     THEN /\ appListsWithIndexIndicator' = pass.appListsWithIndexIndicators
          /\ pass' = [pass EXCEPT !.pc = "done",
                                  !.effects = Append(@, "setAppListsWithIndexIndicators")]
     ELSE /\ pass' = [pass EXCEPT !.pc = "done"]
          /\ UNCHANGED appListsWithIndexIndicator
  /\ UNCHANGED <<layout, repeatingGroups, appLists, lastReturn, tasks, reactor, events>>
  /\ UNCHANGED <<validations, selected, merges, codec, queue>>

\* The put comes after the puts the forked tasks have already yielded.
PassPut ==
  /\ pass.pc = "put"
  /\ PassMayRun
  /\ \A t \in TaskIds : tasks[t].pc # "start"
  /\ appListsWithIndexIndicator' = pass.appListsWithIndexIndicators
  /\ pass' = [pass EXCEPT !.pc = "done",
                          !.effects = Append(@, "setAppListsWithIndexIndicators")]
  /\ UNCHANGED <<layout, repeatingGroups, appLists, lastReturn, tasks, reactor, events>>
  /\ UNCHANGED <<validations, selected, merges, codec, queue>>

\* ------------------------------------------------------------- fetchSpecificAppListSaga
\* The call outside any try block.
NoTryAroundCall == FALSE

\* try { ... } catch (error) { yield put(fetchRejected) } encloses the call.
CatchesFetchError == TRUE

\* A property the response does not have read in place of listItems.
ListItemsMissing(response) == <<>>

\* const AppListsWithoutMetaData = appLists.listItems
ListItemsOf(response) == response.listItems

\* From the start of the task to its call(get, url): the put of fetching.
TaskFetching(t) ==
  /\ tasks[t].pc = "start"
  /\ \A u \in 1..(t - 1) : tasks[u].pc # "start"
  /\ appLists' = fetching(appLists, tasks[t].key,
                          [id |-> tasks[t].appListId, mapping |-> tasks[t].dataMapping,
                           secure |-> tasks[t].secure])
  /\ lastReturn' = IF IndexOfKey(appLists, tasks[t].key) = 0
                    THEN Append(lastReturn, NoReturn) ELSE lastReturn
  /\ tasks' = [tasks EXCEPT ![t].pc = "called",
                            ![t].puts = Append(@, Action("fetching", tasks[t].key, t, <<>>))]
  /\ UNCHANGED <<layout, repeatingGroups, appListsWithIndexIndicator, pass, reactor, events>>
  /\ UNCHANGED <<validations, selected, merges, codec, queue>>

\* An error nobody catches ends the task, its parent and the parent's other forks.
Abort(t) ==
  [u \in TaskIds |->
     IF u = t THEN [tasks[u] EXCEPT !.pc = "crashed"]
     ELSE IF tasks[u].by = tasks[t].by /\ ~Terminal(tasks[u])
          THEN [tasks[u] EXCEPT !.pc = "cancelled"]
          ELSE tasks[u]]

\* call(get, url) returns or throws; reading listItems of no response throws.
GetReturns(t, response) ==
  /\ tasks[t].pc = "called"
  /\ TurnFree
  /\ IF response.kind = "ok"
     THEN LET put == Action("fetchFulfilled", tasks[t].key, t, ListItemsOf(response))
          IN  /\ appLists' = fetchFulfilled(appLists, put.key, put.items)
              /\ tasks' = [tasks EXCEPT ![t].pc = "done", ![t].puts = Append(@, put)]
              /\ UNCHANGED <<pass, reactor>>
     ELSE IF CatchesFetchError
          THEN LET put == Action("fetchRejected", tasks[t].key, t, <<>>)
               IN  /\ appLists' = fetchRejected(appLists, put.key)
                   /\ tasks' = [tasks EXCEPT ![t].pc = "done", ![t].puts = Append(@, put)]
                   /\ UNCHANGED <<pass, reactor>>
          ELSE /\ tasks' = Abort(t)
               /\ pass' = IF tasks[t].by = 0 /\ PassRunning
                          THEN [pass EXCEPT !.pc = "aborted"] ELSE pass
               /\ reactor' = IF tasks[t].by = Len(events) /\ ReactorRunning
                             THEN [reactor EXCEPT !.pc = "idle"] ELSE reactor
               /\ UNCHANGED appLists
  /\ lastReturn' = [lastReturn EXCEPT ![IndexOfKey(appLists, tasks[t].key)] =
                                        [task |-> t, ok |-> response.kind = "ok",
                                         listItems |-> response.listItems]]
  /\ UNCHANGED <<layout, repeatingGroups, appListsWithIndexIndicator, events>>
  /\ UNCHANGED <<validations, selected, merges, codec, queue>>

\* ------------------------------------------------------------- checkIfAppListsShouldRefetchSaga
\* The field compared with its row indices stripped.
ConcreteMatchesAnyRow(dataMapping, field) ==
  getKeyWithoutIndex(field) \in {getKeyWithoutIndex(p) : p \in DOMAIN dataMapping}

\* dataMapping && Object.keys(dataMapping).includes(field)
ConcreteMatches(dataMapping, field) == field \in DOMAIN dataMapping

\* The early return left out.
NeverReturnsWhenFound(foundInExistingAppLists) == FALSE

\* if (foundInExistingAppLists) { return; }
ReturnsWhenFound(foundInExistingAppLists) == foundInExistingAppLists

\* mapping && Object.keys(mapping).map(getKeyWithoutIndexIndicators)
\*              .includes(getKeyWithoutIndex(field))
TemplateMatches(mapping, field) ==
  getKeyWithoutIndex(field) \in {getKeyWithoutIndexIndicators(p) : p \in DOMAIN mapping}

\* replaceIndexIndicatorsWithIndexes throws for some key of the mapping.
NewDataMappingThrows(mapping, keys) ==
  \E p \in DOMAIN mapping : replaceIndexIndicatorsWithIndexes(p, keys) = MalformedPathError

\* The template's own mapping handed to the fetch.
NewDataMappingUnreplaced(mapping, keys) == mapping

\* Row 0 put in place of every index indicator.
NewDataMappingFirstRow(mapping, keys) ==
  LET first == [i \in DOMAIN keys |-> 0]
  IN  [q \in {replaceIndexIndicatorsWithIndexes(p, first) : p \in DOMAIN mapping} |->
         mapping[CHOOSE p \in DOMAIN mapping : replaceIndexIndicatorsWithIndexes(p, first) = q]]

NewDataMapping(mapping, keys) ==
  [q \in {replaceIndexIndicatorsWithIndexes(p, keys) : p \in DOMAIN mapping} |->
     mapping[CHOOSE p \in DOMAIN mapping : replaceIndexIndicatorsWithIndexes(p, keys) = q]]

CurrentEvent == events[Len(events)]

\* What the handler reads of the entries it selected: key, id, mapping, secure.
Selected(state) ==
  [i \in 1..Len(state) |->
     [key |-> state[i].key, id |-> state[i].id, mapping |-> state[i].mapping,
      secure |-> state[i].secure]]

\* takeEvery(updateFulfilled): the selects at the top of the handler.
FieldUpdate(field) ==
  /\ reactor.pc = "idle"
  /\ TurnFree
  /\ Len(events) < MaxEvents
  /\ events' = Append(events, [field |-> field, appLists |-> Selected(appLists),
                               appListsWithIndexIndicators |-> appListsWithIndexIndicator,
                               status |-> "running"])
  /\ reactor' = [pc |-> "concrete", i |-> 1, foundInExistingAppLists |-> FALSE]
  /\ UNCHANGED <<layout, repeatingGroups, appLists, appListsWithIndexIndicator,
                 tasks, lastReturn, pass>>
  /\ UNCHANGED <<validations, selected, merges, codec, queue>>

Returned == [events EXCEPT ![Len(events)].status = "returned"]

ReactConcrete ==
  /\ reactor.pc = "concrete"
  /\ ReactorMayRun
  /\ IF reactor.i > Len(CurrentEvent.appLists)
     THEN /\ IF ReturnsWhenFound(reactor.foundInExistingAppLists)
             THEN /\ reactor' = [reactor EXCEPT !.pc = "idle"]
                  /\ events' = Returned
             ELSE /\ reactor' = [reactor EXCEPT !.pc = "template", !.i = 1]
                  /\ UNCHANGED events
          /\ UNCHANGED tasks
     ELSE LET entry == CurrentEvent.appLists[reactor.i]
          IN  /\ IF ConcreteMatches(entry.mapping, CurrentEvent.field)
                 THEN /\ tasks' = Append(tasks,
                                    NewTask(entry.id, entry.mapping, entry.secure,
                                            Len(events), "concrete"))
                      /\ reactor' = [reactor EXCEPT !.i = @ + 1,
                                                    !.foundInExistingAppLists = TRUE]
                 ELSE /\ reactor' = [reactor EXCEPT !.i = @ + 1]
                      /\ UNCHANGED tasks
              /\ UNCHANGED events
  /\ UNCHANGED <<layout, repeatingGroups, appLists, appListsWithIndexIndicator,
                 lastReturn, pass>>
  /\ UNCHANGED <<validations, selected, merges, codec, queue>>

\* The handler throws: redux-saga cancels the forks it has made.
CancelForksOf(by) ==
  [u \in TaskIds |->
     IF tasks[u].by = by /\ ~Terminal(tasks[u])
     THEN [tasks[u] EXCEPT !.pc = "cancelled"]
     ELSE tasks[u]]

ReactTemplate ==
  /\ reactor.pc = "template"
  /\ ReactorMayRun
  /\ IF reactor.i > Len(CurrentEvent.appListsWithIndexIndicators)
     THEN /\ reactor' = [reactor EXCEPT !.pc = "idle"]
          /\ events' = Returned
          /\ UNCHANGED tasks
     ELSE LET template == CurrentEvent.appListsWithIndexIndicators[reactor.i]
              keys == getKeyIndex(CurrentEvent.field)
          IN  IF ~TemplateMatches(template.mapping, CurrentEvent.field)
              THEN /\ reactor' = [reactor EXCEPT !.i = @ + 1]
                   /\ UNCHANGED <<tasks, events>>
              ELSE IF NewDataMappingThrows(template.mapping, keys)
                   THEN /\ reactor' = [reactor EXCEPT !.pc = "idle"]
                        /\ events' = [events EXCEPT ![Len(events)].status = "failed"]
                        /\ tasks' = CancelForksOf(Len(events))
                   ELSE /\ tasks' = Append(tasks,
                                      NewTask(template.id,
                                              NewDataMapping(template.mapping, keys),
                                              template.secure, Len(events), "template"))
                        /\ reactor' = [reactor EXCEPT !.i = @ + 1]
                        /\ UNCHANGED events
  /\ UNCHANGED <<layout, repeatingGroups, appLists, appListsWithIndexIndicator,
                 lastReturn, pass>>
  /\ UNCHANGED <<validations, selected, merges, codec, queue>>

\* ------------------------------------------------------------- specification
Next ==
  \/ StartPass
  \/ PassElement
  \/ PassKey
  \/ PassPut
  \/ \E t \in TaskIds : TaskFetching(t)
  \/ \E t \in TaskIds : \E response \in Responses : GetReturns(t, response)
  \/ \E field \in Fields : FieldUpdate(field)
  \/ ReactConcrete
  \/ ReactTemplate

Spec == Init /\ [][Next]_vars

\* ------------------------------------------------------------- validation masks
\* The bitwise operators of the 16-bit masks.
RECURSIVE BitAnd(_, _)
BitAnd(a, b) ==
  IF a = 0 \/ b = 0 THEN 0
  ELSE (a % 2) * (b % 2) + 2 * BitAnd(a \div 2, b \div 2)

RECURSIVE BitOr(_, _)
BitOr(a, b) ==
  IF a = 0 THEN b
  ELSE IF b = 0 THEN a
  ELSE (IF a % 2 = 1 \/ b % 2 = 1 THEN 1 ELSE 0) + 2 * BitOr(a \div 2, b \div 2)

\* Required given the bit of CustomBackend.
ValidationMaskRequiredReused ==
  [Schema |-> 1, Component |-> 2, Expression |-> 4, CustomBackend |-> 8,
   Required |-> 8, AllExceptRequired |-> 16383, All |-> 32767,
   Backend |-> 32768, AllIncludingBackend |-> 65535]

\* Required left inside AllExceptRequired.
ValidationMaskRequiredInside ==
  [Schema |-> 1, Component |-> 2, Expression |-> 4, CustomBackend |-> 8,
   Required |-> 8192, AllExceptRequired |-> 16383, All |-> 32767,
   Backend |-> 32768, AllIncludingBackend |-> 65535]

ValidationMask ==
  [Schema |-> 1,                  \* 0b0000000000000001
   Component |-> 2,               \* 0b0000000000000010
   Expression |-> 4,              \* 0b0000000000000100
   CustomBackend |-> 8,           \* 0b0000000000001000
   Required |-> 16384,            \* 0b0100000000000000
   AllExceptRequired |-> 16383,   \* 0b0011111111111111
   All |-> 32767,                 \* 0b0111111111111111
   Backend |-> 32768,             \* 0b1000000000000000
   AllIncludingBackend |-> 65535] \* 0b1111111111111111

ValidationMaskKeys == DOMAIN ValidationMask

\* Extract<ValidationMaskKeys, 'All' | 'AllExceptRequired' | 'All_Including_Backend'>
ValidationMaskCollectionKeys ==
  ValidationMaskKeys \cap {"All", "AllExceptRequired", "All_Including_Backend"}

\* Exclude<ValidationMaskKeys, ValidationMaskCollectionKeys>
ValidationCategoryKeys == ValidationMaskKeys \ ValidationMaskCollectionKeys

\* ValidationCategory: a mask of one category, or 0 for a validation shown at once.
ValidationCategory == {ValidationMask[k] : k \in ValidationCategoryKeys} \cup {0}

\* ------------------------------------------------------------- validation state
MaxMerges == 3

DataElementIds == {"d1"}

ValidationFields == {"f1"}

\* The validator names: the unit of replacement of a merge.
Sources == {"Expression", "Custom"}

\* Where a merge puts its records: the task, or one field of one data element.
Scopes ==
  {[dataElementId |-> "", field |-> ""]}
    \cup {[dataElementId |-> d, field |-> f] : d \in DataElementIds, f \in ValidationFields}

\* The categories the issues of a validator are stored with.
CategoriesOf(source) ==
  IF source = "Expression"
  THEN {ValidationMask.Expression, 0}
  ELSE {ValidationMask.CustomBackend, ValidationMask.Backend, ValidationMask.Required}

Messages == {<<>>, <<"m1">>, <<"m2", "m1">>}

\* The records of one payload: one validator, one category, one record per message.
Payload(source, category, messages, scope, merge) ==
  [i \in 1..Len(messages) |->
     [message |-> messages[i], severity |-> "error", category |-> category,
      source |-> source, field |-> scope.field, dataElementId |-> scope.dataElementId,
      merge |-> merge]]

RecordsIn(state, scope) ==
  IF scope.dataElementId = ""
  THEN state.task
  ELSE state.dataModels[scope.dataElementId][scope.field]

\* The payload added to what the validator had given before.
updateValidationsAdditive(state, source, scope, payload) ==
  IF scope.dataElementId = ""
  THEN [state EXCEPT !.task = @ \o payload]
  ELSE [state EXCEPT !.dataModels[scope.dataElementId][scope.field] = @ \o payload]

\* The records the validator had given in the scope give way to the payload.
updateValidations(state, source, scope, payload) ==
  LET kept(records) == SelectSeq(records, LAMBDA r : r.source # source)
  IN  IF scope.dataElementId = ""
      THEN [state EXCEPT !.task = kept(@) \o payload]
      ELSE [state EXCEPT !.dataModels[scope.dataElementId][scope.field] = kept(@) \o payload]

\* The mask of a NodeVisibility: the number itself, or the mask the node has now.
NodeVisibilities == {"visible", "showAll", "number"}

QueryMasks ==
  {0, ValidationMask.AllExceptRequired, ValidationMask.All,
   ValidationMask.AllIncludingBackend}

\* A validation of category 0 hidden by a mask like any other.
isValidationVisibleByMaskOnly(validation, nodeVisibility, mask) ==
  \/ BitAnd(validation.category, mask) # 0
  \/ nodeVisibility = "showAll" /\ BitAnd(validation.category, ValidationMask.Backend) # 0

isValidationVisible(validation, nodeVisibility, mask) ==
  \/ validation.category = 0
  \/ BitAnd(validation.category, mask) # 0
  \/ nodeVisibility = "showAll" /\ BitAnd(validation.category, ValidationMask.Backend) # 0

\* Every record of the state: the task's, then each field's.
AllValidations(state) ==
  LET scopes == CHOOSE seq \in [1..Cardinality(Scopes) -> Scopes] :
                  \A i, j \in DOMAIN seq : seq[i] = seq[j] => i = j
      RECURSIVE cat(_)
      cat(n) == IF n = 0 THEN <<>> ELSE cat(n - 1) \o RecordsIn(state, scopes[n])
  IN  cat(Cardinality(Scopes))

MergeValidations(source, category, messages, scope) ==
  /\ merges.count < MaxMerges
  /\ LET payload == Payload(source, category, messages, scope, merges.count + 1)
         had == SelectSeq(RecordsIn(validations, scope), LAMBDA r : r.source = source)
     IN  /\ merges' = [count |-> merges.count + 1, source |-> source, scope |-> scope,
                       payload |-> payload, replaced |-> Len(had)]
         /\ validations' = updateValidations(validations, source, scope, payload)
  /\ selected' = NoSelection
  /\ UNCHANGED <<appListVars, codec, queue>>

SelectValidations(nodeVisibility, mask) ==
  /\ selected' = [nodeVisibility |-> nodeVisibility, mask |-> mask,
                  validations |->
                    SelectSeq(AllValidations(validations),
                              LAMBDA v : isValidationVisible(v, nodeVisibility, mask))]
  /\ UNCHANGED <<appListVars, validations, merges, codec, queue>>

ValidationInit ==
  /\ layout = [n \in 1..MaxElements |-> [appListId |-> NoId, mapping |-> NoMapping, secure |-> FALSE]]
  /\ repeatingGroups = [persons |-> 0, pets |-> 1]
  /\ Init

ValidationNext ==
  \/ \E source \in Sources : \E category \in CategoriesOf(source) :
       \E messages \in Messages : \E scope \in Scopes :
         MergeValidations(source, category, messages, scope)
  \/ \E nodeVisibility \in NodeVisibilities : \E mask \in QueryMasks :
       SelectValidations(nodeVisibility, mask)

ValidationSpec == ValidationInit /\ [][ValidationNext]_vars

\* ------------------------------------------------------------- one use of the key codec
MaxKeyLen == 3

KeyTokens == {"persons", "pets", "0", "1", "2"}

\* The concrete field paths: names and row indices, no index indicator.
ConcreteKeys == UNION {[1..n -> KeyTokens] : n \in 1..MaxKeyLen}

\* The template of a concrete path: its n-th row index gives way to the n-th
\* index indicator.
withIndexIndicators(key) ==
  [i \in 1..Len(key) |->
     IF IsIndex(key[i])
     THEN IndexIndicators[Cardinality({j \in 1..i : IsIndex(key[j])})]
     ELSE key[i]]

CodecTemplate ==
  /\ codec.pc = "start"
  /\ codec' = [codec EXCEPT !.pc = "template", !.template = withIndexIndicators(codec.key)]
  /\ UNCHANGED <<appListVars, validations, selected, merges, queue>>

CodecIndex ==
  /\ codec.pc = "template"
  /\ codec' = [codec EXCEPT !.pc = "indexes", !.indexes = getKeyIndex(codec.key)]
  /\ UNCHANGED <<appListVars, validations, selected, merges, queue>>

CodecReplace ==
  /\ codec.pc = "indexes"
  /\ codec' = [codec EXCEPT !.pc = "done",
                            !.result = replaceIndexIndicatorsWithIndexes(codec.template,
                                                                         codec.indexes)]
  /\ UNCHANGED <<appListVars, validations, selected, merges, queue>>

CodecInit ==
  /\ layout = [n \in 1..MaxElements |-> [appListId |-> NoId, mapping |-> NoMapping, secure |-> FALSE]]
  /\ repeatingGroups = [persons |-> 0, pets |-> 1]
  /\ appLists = <<>>
  /\ appListsWithIndexIndicator = <<>>
  /\ tasks = <<>>
  /\ lastReturn = <<>>
  /\ pass = [pc |-> "idle", el |-> 1, ki |-> 1, fetchedAppLists |-> <<>>,
             appListsWithIndexIndicators |-> <<>>, effects |-> <<>>]
  /\ reactor = [pc |-> "idle", i |-> 1, foundInExistingAppLists |-> FALSE]
  /\ events = <<>>
  /\ validations = NoValidations
  /\ selected = NoSelection
  /\ merges = NoMerge
  /\ \E key \in ConcreteKeys : codec = [NoCodec EXCEPT !.pc = "start", !.key = key]
  /\ queue = NoQueue

CodecNext == CodecTemplate \/ CodecIndex \/ CodecReplace

CodecSpec == CodecInit /\ [][CodecNext]_vars

\* ------------------------------------------------------------- queue slice
MaxDispatches == 3

QueueErrors == {"e1", "e2"}

\* The actions of the slice, by the task whose state their reducer writes.
QueueErrorOf ==
  [appTask |-> "appTaskQueueError", userTask |-> "userTaskQueueError",
   dataTask |-> "dataTaskQueueError", infoTask |-> "infoTaskQueueError",
   stateless |-> "statelessQueueError"]

StartOf ==
  [appTask |-> "startInitialAppTaskQueue", dataTask |-> "startInitialDataTaskQueue",
   infoTask |-> "startInitialInfoTaskQueue", stateless |-> "startInitialStatelessQueue"]

FulfilledOf ==
  [appTask |-> "startInitialAppTaskQueueFulfilled",
   dataTask |-> "startInitialDataTaskQueueFulfilled",
   infoTask |-> "startInitialInfoTaskQueueFulfilled",
   stateless |-> "startInitialStatelessQueueFulfilled"]

\* state.<task>.error = error and state.<task>.isDone = ..., on the object of the task.
SetError(state, task, error) == [state EXCEPT !.objects[state.refs[task]].error = error]

SetIsDone(state, task, isDone) == [state EXCEPT !.objects[state.refs[task]].isDone = isDone]

\* The reducers of the slice; an action of another slice leaves the state as it is.
queueReducer(state, action) ==
  IF \E task \in DOMAIN QueueErrorOf : QueueErrorOf[task] = action.type
  THEN SetError(state, CHOOSE task \in DOMAIN QueueErrorOf : QueueErrorOf[task] = action.type,
                action.error)
  ELSE IF \E task \in DOMAIN StartOf : StartOf[task] = action.type
  THEN SetIsDone(state, CHOOSE task \in DOMAIN StartOf : StartOf[task] = action.type, "false")
  ELSE IF \E task \in DOMAIN FulfilledOf : FulfilledOf[task] = action.type
  THEN SetIsDone(state, CHOOSE task \in DOMAIN FulfilledOf : FulfilledOf[task] = action.type,
                 "true")
  ELSE state

\* The puts of the three handlers, in the order they are written.
startInitialAppTaskQueue ==
  <<"TextResourcesActions.fetch", "LanguageActions.fetchLanguage",
    "startInitialAppTaskQueueFulfilled">>

\* The Fulfilled put before the last two kick-off actions.
startInitialDataTaskQueueFulfilledEarly ==
  <<"FormDataActions.fetchInitial", "DataModelActions.fetchJsonSchema",
    "FormLayoutActions.fetch", "FormLayoutActions.fetchSettings",
    "startInitialDataTaskQueueFulfilled", "PdfActions.initial",
    "AttachmentActions.mapAttachments">>

startInitialDataTaskQueue ==
  <<"FormDataActions.fetchInitial", "DataModelActions.fetchJsonSchema",
    "FormLayoutActions.fetch", "FormLayoutActions.fetchSettings",
    "PdfActions.initial", "AttachmentActions.mapAttachments",
    "startInitialDataTaskQueueFulfilled">>

startInitialStatelessQueue ==
  <<"IsLoadingActions.startStatelessIsLoading", "FormDataActions.fetchInitial",
    "DataModelActions.fetchJsonSchema", "FormLayoutActions.fetch",
    "FormLayoutActions.fetchSettings", "startInitialStatelessQueueFulfilled">>

HandlerPuts ==
  [appTask |-> startInitialAppTaskQueue, dataTask |-> startInitialDataTaskQueue,
   stateless |-> startInitialStatelessQueue]

\* The handlers only put: a handler runs to its end in the turn of its start
\* action, and another action is dispatched from outside when none runs.
QueueTurnFree == queue.handler.task = "none" /\ queue.dispatches < MaxDispatches

QueueError(task, error) ==
  /\ QueueTurnFree
  /\ LET action == [type |-> QueueErrorOf[task], error |-> error]
     IN  queue' = [queue EXCEPT !.state = queueReducer(@, action), !.last = action,
                                !.dispatches = @ + 1]
  /\ UNCHANGED <<appListVars, validations, selected, merges, codec>>

\* takeEvery / takeLatest: the reducer, then the handler of the action starts.
StartInitialQueue(task) ==
  /\ QueueTurnFree
  /\ LET action == [type |-> StartOf[task], error |-> "null"]
     IN  queue' = [queue EXCEPT !.state = queueReducer(@, action), !.last = action,
                                !.handler = [task |-> task, i |-> 1],
                                !.puts[task] = <<>>,
                                !.dispatches = @ + 1]
  /\ UNCHANGED <<appListVars, validations, selected, merges, codec>>

\* The saga of this action is imported: here only its reducer.
StartInitialInfoTaskQueue ==
  /\ QueueTurnFree
  /\ LET action == [type |-> StartOf.infoTask, error |-> "null"]
     IN  queue' = [queue EXCEPT !.state = queueReducer(@, action), !.last = action,
                                !.dispatches = @ + 1]
  /\ UNCHANGED <<appListVars, validations, selected, merges, codec>>

StartInitialInfoTaskQueueFulfilled ==
  /\ QueueTurnFree
  /\ LET action == [type |-> FulfilledOf.infoTask, error |-> "null"]
     IN  queue' = [queue EXCEPT !.state = queueReducer(@, action), !.last = action,
                                !.dispatches = @ + 1]
  /\ UNCHANGED <<appListVars, validations, selected, merges, codec>>

\* yield put(...): the next put of the handler that runs.
HandlerPut ==
  /\ queue.handler.task # "none"
  /\ LET task == queue.handler.task
         list == HandlerPuts[task]
         action == [type |-> list[queue.handler.i], error |-> "null"]
     IN  queue' = [queue EXCEPT !.state = queueReducer(@, action), !.last = action,
                                !.puts[task] = Append(@, action.type),
                                !.handler = IF queue.handler.i = Len(list)
                                            THEN NoHandler
                                            ELSE [task |-> task, i |-> queue.handler.i + 1]]
  /\ UNCHANGED <<appListVars, validations, selected, merges, codec>>

QueueInit ==
  /\ layout = [n \in 1..MaxElements |-> [appListId |-> NoId, mapping |-> NoMapping, secure |-> FALSE]]
  /\ repeatingGroups = [persons |-> 0, pets |-> 1]
  /\ Init

QueueNext ==
  \/ \E task \in QueueTasks : \E error \in QueueErrors : QueueError(task, error)
  \/ \E task \in DOMAIN HandlerPuts : StartInitialQueue(task)
  \/ StartInitialInfoTaskQueue
  \/ StartInitialInfoTaskQueueFulfilled
  \/ HandlerPut

QueueSpec == QueueInit /\ [][QueueNext]_vars

\* The middleware runs a handler that has started to its end.
QueueFairSpec == QueueSpec /\ WF_vars(HandlerPut)

\* ------------------------------------------------------------- properties
PassTasks == {t \in TaskIds : tasks[t].by = 0}

EventIds == 1..Len(events)

ForkedBy(e, via) == SelectSeq(tasks, LAMBDA task : task.by = e /\ task.via = via)

\* The lookup keys the resolver yields for the elements that have a list id.
KeysOfLayout ==
  UNION { {getAppListLookupKey(Resolve(layout[n]).keys[k].id, Resolve(layout[n]).keys[k].mapping) :
             k \in 1..Len(Resolve(layout[n]).keys)} :
          n \in {m \in 1..Len(layout) : layout[m].appListId # NoId} }

\* The template keys of the layout, one per element that has one.
TemplatesOfLayout ==
  LET withTemplate == SelectSeq([n \in 1..Len(layout) |-> Resolve(layout[n]).keyWithIndexIndicator],
                                LAMBDA k : k # NoTemplate)
  IN  withTemplate

PassForked == pass.pc \in {"put", "done"}

\* C1: the tasks forked by one pass have pairwise different lookup keys, and once
\* the pass has gone through the layout there is exactly one task for each lookup
\* key the resolver gave for the elements that have a list id.
C1_OneFetchPerKey ==
  /\ \A t, u \in PassTasks : tasks[t].key = tasks[u].key => t = u
  /\ PassForked => {tasks[t].key : t \in PassTasks} = KeysOfLayout

C1_Witness ==
  /\ PassForked
  /\ Len(layout) >= 2
  /\ layout[1].appListId # NoId
  /\ Len(Resolve(layout[1]).keys) > 0
  /\ Len(Resolve(layout[2]).keys) > 0
  /\ getAppListLookupKey(layout[1].appListId, Resolve(layout[1]).keys[1].mapping)
       = getAppListLookupKey(layout[2].appListId, Resolve(layout[2]).keys[1].mapping)
  /\ Cardinality(PassTasks) = 1

Completed(task) ==
  /\ Len(task.puts) > 0
  /\ task.puts[Len(task.puts)].type \in {"fetchFulfilled", "fetchRejected"}

\* C2: when a fetch forked by the pass has put fetchFulfilled or fetchRejected, the
\* pass has put setAppListsWithIndexIndicators and the store holds every template
\* key of the layout.
C2_TemplatesBeforeCompletion ==
  \A t \in PassTasks :
    Completed(tasks[t]) =>
      /\ pass.pc = "done"
      /\ pass.effects[Len(pass.effects)] = "setAppListsWithIndexIndicators"
      /\ appListsWithIndexIndicator = TemplatesOfLayout

C2_Witness ==
  /\ \E t \in PassTasks : Completed(tasks[t])
  /\ Len(TemplatesOfLayout) = 2
  /\ \E t \in PassTasks : tasks[t].pc = "called"

ConcreteMatchIn(e) ==
  \E i \in 1..Len(events[e].appLists) :
    events[e].field \in DOMAIN events[e].appLists[i].mapping

StrippedMatch(mapping, field) ==
  \E p \in DOMAIN mapping : getKeyWithoutIndexIndicators(p) = getKeyWithoutIndex(field)

TemplateMatchIn(e) ==
  \E i \in 1..Len(events[e].appListsWithIndexIndicators) :
    StrippedMatch(events[e].appListsWithIndexIndicators[i].mapping, events[e].field)

\* C3: an event whose changed field is a field path of some stored concrete entry
\* forks nothing from the template keys, also when a template key matches.
C3_ConcreteBeforeTemplate ==
  \A e \in EventIds : ConcreteMatchIn(e) => Len(ForkedBy(e, "template")) = 0

C3_Witness ==
  \E e \in EventIds :
    /\ events[e].status = "returned"
    /\ ConcreteMatchIn(e)
    /\ TemplateMatchIn(e)
    /\ Len(ForkedBy(e, "concrete")) > 0

\* C4 (as claimed): the tasks forked for one event have pairwise different
\* lookup keys.
C4_AtMostOneRefetchPerKey ==
  \A t, u \in TaskIds :
    (tasks[t].by >= 1 /\ tasks[t].by = tasks[u].by /\ tasks[t].key = tasks[u].key) => t = u

IsConcrete(mapping) ==
  \A p \in DOMAIN mapping : NumIndicators(p) = 0 /\ p # MalformedPathError

\* C5: no task, of the pass or of the reactor, has a mapping with an index indicator
\* left in one of its field paths.
C5_NoIndicatorFetched ==
  \A t \in TaskIds : IsConcrete(tasks[t].dataMapping) /\ IsConcrete(tasks[t].key.mapping)

C5_Witness ==
  /\ \E t \in TaskIds : tasks[t].via = "template"
  /\ \E t \in TaskIds : tasks[t].via = "pass" /\ DOMAIN tasks[t].dataMapping # {}
  /\ \E e \in EventIds : events[e].status = "failed"

TasksOfKey(key) == {t \in TaskIds : tasks[t].key = key}

\* C6: the store holds one entry per lookup key, and when every task of a key has
\* put its fetchFulfilled or fetchRejected the entry holds the status and the items
\* of the response that came last, and nothing of the earlier ones.
C6_LastCompletedWins ==
  /\ \A i, j \in 1..Len(appLists) : appLists[i].key = appLists[j].key => i = j
  /\ \A i \in 1..Len(appLists) :
       (\A t \in TasksOfKey(appLists[i].key) : tasks[t].pc = "done") =>
         /\ lastReturn[i].task \in TasksOfKey(appLists[i].key)
         /\ appLists[i].fetchStatus = (IF lastReturn[i].ok THEN "done" ELSE "error")
         /\ appLists[i].items = lastReturn[i].listItems

C6_Witness ==
  \E i \in 1..Len(appLists) :
    \E t, u \in TasksOfKey(appLists[i].key) :
      /\ t < u
      /\ tasks[t].pc = "done"
      /\ tasks[u].pc = "done"
      /\ lastReturn[i].task = t
      /\ tasks[u].puts[2].items # tasks[t].puts[2].items

\* A step in which the call of task t ends without a fetchFulfilled.
FailsIn(t) ==
  /\ tasks[t].pc = "called"
  /\ tasks'[t].pc \in {"done", "crashed"}
  /\ tasks'[t].puts[Len(tasks'[t].puts)].type # "fetchFulfilled"

\* C7: the step in which a fetch fails puts fetchRejected with the key of that
\* task and does nothing else: the other tasks, the pass, the handler and the
\* entries of the other keys are as before, and the entry of the key is in error.
C7_FailureStaysLocal ==
  [][\A t \in TaskIds :
       FailsIn(t) =>
         /\ tasks'[t].puts = Append(tasks[t].puts, Action("fetchRejected", tasks[t].key, t, <<>>))
         /\ \A u \in TaskIds \ {t} : tasks'[u] = tasks[u]
         /\ pass' = pass
         /\ reactor' = reactor
         /\ events' = events
         /\ Len(appLists') = Len(appLists)
         /\ \A i \in 1..Len(appLists) :
              IF appLists[i].key = tasks[t].key
              THEN appLists'[i].fetchStatus = "error"
              ELSE appLists'[i] = appLists[i]]_vars

C7_Witness ==
  \E t, u \in TaskIds :
    /\ t # u
    /\ tasks[t].by = tasks[u].by
    /\ tasks[t].key # tasks[u].key
    /\ tasks[t].pc = "done"
    /\ tasks[t].puts[2].type = "fetchRejected"
    /\ tasks[u].pc = "done"
    /\ tasks[u].puts[2].type = "fetchFulfilled"
    /\ lastReturn[IndexOfKey(appLists, tasks[u].key)].task = u
    /\ lastReturn[IndexOfKey(appLists, tasks[t].key)].task < u

PastConcrete(e) == e < Len(events) \/ reactor.pc # "concrete"

Handled(e) == events[e].status # "running"

\* C8: once the handler is through the stored entries, the tasks it forked from
\* them are, in order, one for each entry whose mapping has the changed field as a
\* field path, with the id, mapping and secure flag of that entry.
C8_RefetchesExactMatches ==
  \A e \in EventIds :
    PastConcrete(e) =>
      LET forked == ForkedBy(e, "concrete")
          matching == SelectSeq(events[e].appLists,
                                LAMBDA entry : events[e].field \in DOMAIN entry.mapping)
      IN  /\ Len(forked) = Len(matching)
          /\ \A i \in 1..Len(forked) :
               /\ forked[i].appListId = matching[i].id
               /\ forked[i].dataMapping = matching[i].mapping
               /\ forked[i].secure = matching[i].secure

C8_Witness ==
  \E e \in EventIds :
    /\ Handled(e)
    /\ Len(ForkedBy(e, "concrete")) > 0
    /\ Len(ForkedBy(e, "concrete")) < Len(events[e].appLists)
    /\ \E i \in 1..Len(events[e].appLists) :
         /\ events[e].field \notin DOMAIN events[e].appLists[i].mapping
         /\ getKeyWithoutIndex(events[e].field)
              \in {getKeyWithoutIndex(p) : p \in DOMAIN events[e].appLists[i].mapping}

MatchingTemplates(e) ==
  SelectSeq(events[e].appListsWithIndexIndicators,
            LAMBDA template : StrippedMatch(template.mapping, events[e].field))

CountsAgree(template, field) ==
  \A p \in DOMAIN template.mapping : NumIndicators(p) = Len(getKeyIndex(field))

\* The task fetches the template with the rows of the field in place of its indicators.
SubstitutedFrom(task, template, field) ==
  /\ task.appListId = template.id
  /\ task.secure = template.secure
  /\ field \in DOMAIN task.dataMapping
  /\ \A q \in DOMAIN task.dataMapping :
       /\ NumIndicators(q) = 0
       /\ getKeyIndex(q) = getKeyIndex(field)
       /\ \A p \in DOMAIN template.mapping :
            getKeyWithoutIndex(q) = getKeyWithoutIndexIndicators(p) =>
              task.dataMapping[q] = template.mapping[p]
  /\ {getKeyWithoutIndex(q) : q \in DOMAIN task.dataMapping}
       = {getKeyWithoutIndexIndicators(p) : p \in DOMAIN template.mapping}

TemplateRefetches(e) ==
  LET forked == ForkedBy(e, "template")
      matching == MatchingTemplates(e)
  IN  /\ Len(forked) <= Len(matching)
      /\ \A i \in 1..Len(forked) :
           /\ CountsAgree(matching[i], events[e].field)
           /\ SubstitutedFrom(forked[i], matching[i], events[e].field)
      /\ events[e].status = "returned" => Len(forked) = Len(matching)
      /\ events[e].status = "failed" =>
           /\ Len(forked) < Len(matching)
           /\ ~CountsAgree(matching[Len(forked) + 1], events[e].field)
           /\ \A i \in 1..Len(forked) : forked[i].pc = "cancelled"

\* The turn of the handler of the last event: the handler and the tasks it forked
\* run up to their call(get, url).
InEventTurn ==
  /\ Len(events) >= 1
  /\ ReactorRunning \/ \E t \in TaskIds : tasks[t].by = Len(events) /\ tasks[t].pc = "start"

C10_HandlerNeverWaits ==
  [][ReactorRunning =>
       \A t \in TaskIds :
         tasks[t].pc = "called" => tasks'[t].pc \in {"called", "cancelled"}]_vars

C10_Witness ==
  \E e \in EventIds :
    \E t, u \in TaskIds :
      /\ events[e].status = "returned"
      /\ tasks[t].by < e
      /\ tasks[t].pc = "called"
      /\ tasks[u].by = e
      /\ tasks[u].pc = "called"
      /\ tasks[u].key = tasks[t].key
      /\ \E v \in TaskIds : tasks[v].by = e /\ tasks[v].key # tasks[t].key

\* ------------------------------------------------------------- properties of the masks
MaskBits == 0..15

OneBit(n) == \E i \in MaskBits : n = 2 ^ i

RECURSIVE OrOf(_)
OrOf(flags) ==
  IF flags = {} THEN 0
  ELSE LET f == CHOOSE g \in flags : TRUE IN BitOr(f, OrOf(flags \ {f}))

\* The six categories with a bit of their own.
AtomicKeys == {"Schema", "Component", "Expression", "CustomBackend", "Required", "Backend"}

CombinationKeys == {"AllExceptRequired", "All", "AllIncludingBackend"}

AtomicsHaveOneBit ==
  /\ \A k \in AtomicKeys : OneBit(ValidationMask[k])
  /\ \A k, l \in AtomicKeys : ValidationMask[k] = ValidationMask[l] => k = l

\* category: ValidationCategory, of every record of the state.
StoredCategories ==
  \A i \in 1..Len(AllValidations(validations)) :
    AllValidations(validations)[i].category \in ValidationCategory

\* C11 (as claimed): each of the six categories has exactly one bit, the six
\* differ, and each combination mask is the bitwise OR of some of the six.
C11_CombinationsAreOrOfAtomics ==
  /\ StoredCategories
  /\ AtomicsHaveOneBit
  /\ \A c \in CombinationKeys :
       \E keys \in SUBSET AtomicKeys :
         ValidationMask[c] = OrOf({ValidationMask[k] : k \in keys})

\* Bits 4 to 13: the bits of no category.
UnassignedBits == OrOf({2 ^ i : i \in 4..13})

\* C11 (amended): each of the six categories has exactly one bit and the six
\* differ; AllExceptRequired is the OR of Schema, Component, Expression,
\* CustomBackend and the ten bits 4 to 13 that belong to no category, All is
\* AllExceptRequired with Required, AllIncludingBackend is All with Backend.
C11_MaskBits ==
  /\ StoredCategories
  /\ AtomicsHaveOneBit
  /\ ValidationMask.AllExceptRequired =
       BitOr(OrOf({ValidationMask[k] : k \in {"Schema", "Component", "Expression", "CustomBackend"}}),
             UnassignedBits)
  /\ BitAnd(UnassignedBits, OrOf({ValidationMask[k] : k \in AtomicKeys})) = 0
  /\ ValidationMask.All = BitOr(ValidationMask.AllExceptRequired, ValidationMask.Required)
  /\ ValidationMask.AllIncludingBackend = BitOr(ValidationMask.All, ValidationMask.Backend)

\* Under All a Required record is selected and a Backend record is left out.
C11_Witness ==
  /\ selected.nodeVisibility = "number"
  /\ selected.mask = ValidationMask.All
  /\ \E i \in 1..Len(selected.validations) :
       selected.validations[i].category = ValidationMask.Required
  /\ \E i \in 1..Len(AllValidations(validations)) :
       /\ AllValidations(validations)[i].category = ValidationMask.Backend
       /\ \A j \in 1..Len(selected.validations) :
            selected.validations[j] # AllValidations(validations)[i]

\* ------------------------------------------------------------- properties of the selection
BitsOf(n) == {i \in MaskBits : (n \div (2 ^ i)) % 2 = 1}

\* The rule of visibility, bit by bit.
VisibleUnder(category, nodeVisibility, mask) ==
  IF category = 0 THEN TRUE
  ELSE \/ BitsOf(category) \cap BitsOf(mask) # {}
       \/ nodeVisibility = "showAll" /\ 15 \in BitsOf(category)

Selects == selected.nodeVisibility # "none"

OfSource(records, source) == SelectSeq(records, LAMBDA r : r.source = source)

NotOfSource(records, source) == SelectSeq(records, LAMBDA r : r.source # source)

\* A record without the number of the merge that gave it.
Issue(r) ==
  [message |-> r.message, severity |-> r.severity, category |-> r.category,
   source |-> r.source, field |-> r.field, dataElementId |-> r.dataElementId]

Merged == merges'.count = merges.count + 1

\* C13: a merge from a validator leaves in its scope, of that validator, the
\* records of its payload and no other, leaves the records of the other validators
\* in the scope and every other scope as they were, and no scope holds the same
\* issue twice; so what an earlier merge from the validator gave is gone.
C13_MergeReplacesBySource ==
  [][Merged =>
       LET source == merges'.source
           scope == merges'.scope
           before == RecordsIn(validations, scope)
           after == RecordsIn(validations', scope)
       IN  /\ OfSource(after, source) = merges'.payload
           /\ \A i \in 1..Len(after) :
                after[i].source = source => after[i].merge = merges'.count
           /\ NotOfSource(after, source) = NotOfSource(before, source)
           /\ \A other \in Scopes \ {scope} :
                RecordsIn(validations', other) = RecordsIn(validations, other)
           /\ \A any \in Scopes :
                \A i, j \in 1..Len(RecordsIn(validations', any)) :
                  Issue(RecordsIn(validations', any)[i]) = Issue(RecordsIn(validations', any)[j])
                    => i = j]_vars

\* A merge from a validator into the task that had two records of it there, from
\* an earlier merge, and gives one; another validator's older record stays.
C13_Witness ==
  /\ merges.count = 3
  /\ merges.replaced = 2
  /\ merges.source = "Expression"
  /\ merges.scope.dataElementId = ""
  /\ Len(merges.payload) = 1
  /\ \E i \in 1..Len(validations.task) :
       validations.task[i].source = "Custom" /\ validations.task[i].merge = 1
  /\ \A i \in 1..Len(validations.task) :
       validations.task[i].source = "Expression" => validations.task[i].merge = 3
  /\ Len(OfSource(validations.task, "Expression")) = 1

\* ------------------------------------------------------------- properties of the key codec
IndexPositions(key) == {i \in 1..Len(key) : IsIndex(key[i])}

\* C14: a concrete path made a template and given back the indexes that
\* getKeyIndex reads from it is the path again: the indexes are as many as its row
\* indices, and the n-th from the left goes where the n-th row index was.
C14_CodecRoundTrip ==
  codec.pc = "done" =>
    /\ codec.result = codec.key
    /\ Len(codec.indexes) = Cardinality(IndexPositions(codec.key))
    /\ NumIndicators(codec.template) = Len(codec.indexes)
    /\ \A i \in IndexPositions(codec.key) :
         codec.result[i] =
           ToStr(codec.indexes[Cardinality({j \in IndexPositions(codec.key) : j <= i})])

C14_Witness ==
  /\ codec.pc = "done"
  /\ codec.key = <<"persons", "2", "0">>
  /\ codec.template = <<"persons", "{0}", "{1}">>
  /\ codec.indexes = <<2, 0>>
  /\ codec.result = codec.key

\* ------------------------------------------------------------- properties of the collections
Includes(mask, flag) == BitsOf(flag) \subseteq BitsOf(mask)

Excludes(mask, flag) == BitsOf(flag) \cap BitsOf(mask) = {}

\* The records of a category are all in the selection, or none of them is.
SelectsAllOf(category) ==
  \A i \in 1..Len(AllValidations(validations)) :
    AllValidations(validations)[i].category = category =>
      \E j \in 1..Len(selected.validations) :
        selected.validations[j] = AllValidations(validations)[i]

SelectsNoneOf(category) ==
  \A j \in 1..Len(selected.validations) : selected.validations[j].category # category

\* C16: AllExceptRequired includes the bits of Expression, Schema, Component and
\* CustomBackend and not that of Required, which All includes; Backend is in
\* AllIncludingBackend and in neither of the other two.  So a selection by one of
\* these masks holds the Expression records under each of them, the Required
\* records under All and AllIncludingBackend only, the Backend records under
\* AllIncludingBackend only.
C16_MaskMembership ==
  /\ \A k \in {"Expression", "Schema", "Component", "CustomBackend"} :
       Includes(ValidationMask.AllExceptRequired, ValidationMask[k])
  /\ Excludes(ValidationMask.AllExceptRequired, ValidationMask.Required)
  /\ Includes(ValidationMask.All, ValidationMask.Required)
  /\ Excludes(ValidationMask.All, ValidationMask.Backend)
  /\ Excludes(ValidationMask.AllExceptRequired, ValidationMask.Backend)
  /\ Includes(ValidationMask.AllIncludingBackend, ValidationMask.Backend)
  /\ (selected.nodeVisibility \in {"visible", "number"} /\ selected.mask # 0) =>
       /\ SelectsAllOf(ValidationMask.Expression)
       /\ SelectsAllOf(ValidationMask.CustomBackend)
       /\ IF selected.mask = ValidationMask.AllExceptRequired
          THEN SelectsNoneOf(ValidationMask.Required)
          ELSE SelectsAllOf(ValidationMask.Required)
       /\ IF selected.mask = ValidationMask.AllIncludingBackend
          THEN SelectsAllOf(ValidationMask.Backend)
          ELSE SelectsNoneOf(ValidationMask.Backend)

\* Under AllExceptRequired an Expression record is selected, a Required record of
\* the state is not.
C16_Witness ==
  /\ selected.nodeVisibility = "visible"
  /\ selected.mask = ValidationMask.AllExceptRequired
  /\ \E j \in 1..Len(selected.validations) :
       /\ selected.validations[j].category = ValidationMask.Expression
       /\ selected.validations[j].source = "Expression"
       /\ selected.validations[j].dataElementId = ""
  /\ \E i \in 1..Len(AllValidations(validations)) :
       AllValidations(validations)[i].category = ValidationMask.Required
  /\ SelectsNoneOf(ValidationMask.Required)

\* ------------------------------------------------------------- properties of the fetch tasks
Ended(task) == Terminal(task)

InFlight(task) == ~Terminal(task)

\* C17 (as claimed): what a task has put is the start of: fetching, then
\* fetchFulfilled with the listItems of the response or fetchRejected, all with the
\* lookup key of the task's appListId and dataMapping; a task that has ended has
\* put both.
C17_FetchingThenTerminal ==
  \A t \in TaskIds :
    LET puts == tasks[t].puts
        key == getAppListLookupKey(tasks[t].appListId, tasks[t].dataMapping)
    IN  /\ Len(puts) <= 2
        /\ Len(puts) >= 1 => puts[1] = Action("fetching", key, t, <<>>)
        /\ Len(puts) = 2 =>
             /\ puts[2].type \in {"fetchFulfilled", "fetchRejected"}
             /\ puts[2].key = key
             /\ puts[2].task = t
             /\ puts[2].type = "fetchFulfilled" => puts[2].items \in ItemLists
             /\ puts[2].type = "fetchRejected" => puts[2].items = <<>>
        /\ Ended(tasks[t]) => Len(puts) = 2

\* C18 (as claimed, its part that a finite run refutes): once no fetch task is in
\* flight no entry is left in loading.
C18_NoLoadingLeft ==
  (\A t \in TaskIds : ~InFlight(tasks[t])) =>
    \A i \in 1..Len(appLists) : appLists[i].fetchStatus # "loading"

\* ------------------------------------------------------------- properties of the pass
Puts(effects) == SelectSeq(effects, LAMBDA e : e = "setAppListsWithIndexIndicators")

\* C19: the pass puts setAppListsWithIndexIndicators once, after its forks and as
\* the last thing it does, whether it forked or not; until then the store has no
\* template key, from then on it has the template key of every element that has
\* one, in the order of the layout, equal ones as often as they come.
C19_TemplatesPutOnceLast ==
  /\ Len(Puts(pass.effects)) = (IF pass.pc = "done" THEN 1 ELSE 0)
  /\ Len(pass.effects) = Cardinality(PassTasks) + Len(Puts(pass.effects))
  /\ pass.pc = "done" =>
       /\ pass.effects[Len(pass.effects)] = "setAppListsWithIndexIndicators"
       /\ appListsWithIndexIndicator = TemplatesOfLayout
  /\ pass.pc # "done" => appListsWithIndexIndicator = <<>>

\* No row, so no fetch, and twice the same template key.
C19_Witness ==
  /\ pass.pc = "done"
  /\ pass.effects = <<"setAppListsWithIndexIndicators">>
  /\ tasks = <<>>
  /\ Len(appListsWithIndexIndicator) = 2
  /\ appListsWithIndexIndicator[1] = appListsWithIndexIndicator[2]

PassSteps == pass.pc \in {"element", "keys"} /\ pass.el <= Len(layout) /\ pass' # pass

\* C20: a step of the pass at an element without a list id forks nothing, whatever
\* keys the resolver gives for it; the step at an element without keys forks
\* nothing either, goes on to the next element and records the template key of the
\* element if it has one.
C20_NoIdNoFork ==
  [][PassSteps =>
       LET element == layout[pass.el]
           r == Resolve(element)
       IN  /\ element.appListId = NoId => tasks' = tasks
           /\ Len(r.keys) = 0 =>
                /\ tasks' = tasks
                /\ pass'.el = pass.el + 1
                /\ r.keyWithIndexIndicator # NoTemplate =>
                     pass'.appListsWithIndexIndicators =
                       Append(pass.appListsWithIndexIndicators, r.keyWithIndexIndicator)]_vars

\* An element without a list id for which the resolver gives a key, and an element
\* with a template key and no row: the pass ends with no fetch and the template.
C20_Witness ==
  /\ pass.pc = "done"
  /\ layout[1].appListId = NoId
  /\ Len(Resolve(layout[1]).keys) = 1
  /\ layout[2].appListId # NoId
  /\ Len(Resolve(layout[2]).keys) = 0
  /\ tasks = <<>>
  /\ appListsWithIndexIndicator = <<Resolve(layout[2]).keyWithIndexIndicator>>

\* ------------------------------------------------------------- properties of the queue slice
IsDone(task) == queue.state.objects[queue.state.refs[task]].isDone

ErrorOf(task) == queue.state.objects[queue.state.refs[task]].error

\* The kick-off actions of the three queues, in the order of their declaration.
KickOff ==
  [appTask |-> <<"TextResourcesActions.fetch", "LanguageActions.fetchLanguage">>,
   dataTask |-> <<"FormDataActions.fetchInitial", "DataModelActions.fetchJsonSchema",
                  "FormLayoutActions.fetch", "FormLayoutActions.fetchSettings",
                  "PdfActions.initial", "AttachmentActions.mapAttachments">>,
   stateless |-> <<"IsLoadingActions.startStatelessIsLoading", "FormDataActions.fetchInitial",
                   "DataModelActions.fetchJsonSchema", "FormLayoutActions.fetch",
                   "FormLayoutActions.fetchSettings">>]

Started == DOMAIN KickOff

\* What the handler of a started queue puts in all.
AllPuts(task) == Append(KickOff[task], FulfilledOf[task])

IsPrefix(seq, of) == Len(seq) <= Len(of) /\ seq = SubSeq(of, 1, Len(seq))

\* isDone is null until the first start and false while the handler puts its
\* actions in order; it is true when, and only when, the handler has put them all,
\* the Fulfilled action last.
QueueLifecycle ==
  /\ queue.dispatches = 0 => \A task \in QueueTasks : IsDone(task) = "null"
  /\ \A task \in Started :
       /\ IsPrefix(queue.puts[task], AllPuts(task))
       /\ IsDone(task) = "null" => queue.puts[task] = <<>> /\ queue.handler.task # task
       /\ queue.handler.task = task =>
            IsDone(task) = "false" /\ Len(queue.puts[task]) = queue.handler.i - 1
       /\ IsDone(task) = "true" <=> queue.puts[task] = AllPuts(task)

StartsAs(task) ==
  queue'.dispatches = queue.dispatches + 1 /\ queue'.last.type = StartOf[task]

\* C21: for appTask, dataTask and stateless, isDone is null at first, the start
\* action makes it false, its handler puts the kick-off actions of the queue in
\* the order of their declaration and the Fulfilled action last, and isDone is
\* true only then; a handler that has started goes on to its end, so a queue
\* whose isDone is false comes to isDone true.
C21_QueueLifecycle ==
  /\ []QueueLifecycle
  /\ [][\A task \in Started :
          StartsAs(task) => IsDone(task)' = "false" /\ queue'.puts[task] = <<>>]_vars
  /\ \A task \in Started : (IsDone(task) = "false") ~> (IsDone(task) = "true")

\* The data task queue done, the stateless queue done, the app task queue started
\* and its handler after the first put.
C21_Witness ==
  /\ IsDone("dataTask") = "true"
  /\ queue.puts.dataTask = AllPuts("dataTask")
  /\ IsDone("stateless") = "true"
  /\ IsDone("appTask") = "false"
  /\ queue.handler = [task |-> "appTask", i |-> 2]
  /\ queue.puts.appTask = <<"TextResourcesActions.fetch">>

\* The step dispatches an action of the given type.
Dispatches(type) == queue' # queue /\ queue'.last.type = type

OthersUnchanged(task) ==
  \A other \in QueueTasks \ {task} :
    IsDone(other)' = IsDone(other) /\ ErrorOf(other)' = ErrorOf(other)

NoErrorChanged == \A task \in QueueTasks : ErrorOf(task)' = ErrorOf(task)

\* C22: a QueueError action sets the error of its own task and changes neither the
\* isDone of that task nor anything of the four other tasks; a start or Fulfilled
\* action sets the isDone of its own task and changes neither an error nor the
\* isDone of another task; the five tasks have five objects, none of them
\* commonState.
C22_QueueFrame ==
  [][/\ \A task \in QueueTasks :
          Dispatches(QueueErrorOf[task]) =>
            /\ ErrorOf(task)' = queue'.last.error
            /\ IsDone(task)' = IsDone(task)
            /\ OthersUnchanged(task)
     /\ \A task \in DOMAIN StartOf :
          /\ Dispatches(StartOf[task]) =>
               IsDone(task)' = "false" /\ NoErrorChanged /\ OthersUnchanged(task)
          /\ Dispatches(FulfilledOf[task]) =>
               IsDone(task)' = "true" /\ NoErrorChanged /\ OthersUnchanged(task)
     /\ \A task, other \in QueueTasks :
          /\ queue'.state.refs[task] = queue'.state.refs[other] => task = other
          /\ queue'.state.refs[task] # 0
     /\ queue'.state.objects[0] = commonState]_vars

\* The data task queue done and then in error, another task with another error.
C22_Witness ==
  /\ IsDone("dataTask") = "true"
  /\ ErrorOf("dataTask") = "e1"
  /\ ErrorOf("userTask") = "e2"
  /\ queue.last.type = "userTaskQueueError"
  /\ \A task \in QueueTasks \ {"dataTask"} : IsDone(task) = "null"
  /\ \A task \in QueueTasks \ {"dataTask", "userTask"} : ErrorOf(task) = "null"

====
